---- MODULE Spec2Model ----
(***************************************************************************)
(* jdaviz/core/freezable_state.py: the frozen-attribute guard of           *)
(* FreezableState and the limits <-> zoom synchronisation of               *)
(* FreezableBqplotImageViewerState.                                        *)
(*                                                                         *)
(* Numbers are fixed point: the integer n stands for n / Scale, so that    *)
(* the literals 0.5 and -0.5 of the source are representable.  An          *)
(* operation whose halving would leave the grid, or whose result leaves    *)
(* [-MaxCoord, MaxCoord], is outside the explored bound.                   *)
(*                                                                         *)
(* One external operation (an attribute assignment, a method call) is one  *)
(* action.  The callbacks it fires run synchronously inside it; the        *)
(* action records every notification and handler invocation, with the      *)
(* state the observer saw, in last.log.                                    *)
(***************************************************************************)
EXTENDS Integers, Sequences, FiniteSets, TLC

-----------------------------------------------------------------------------
(* Bounds of the exploration *)

MaxOps == 2

MaxDepth == 4

MaxCoord == 24

-----------------------------------------------------------------------------
(* Values *)

None == -9999

NegInf == -8888

Scale == 2

Px(n) == n * Scale

HalfPixel == Scale \div 2

NoError == "none"

NoViewer == "unset"

Abs(n) == IF n < 0 THEN -n ELSE n

Min(a, b) == IF a <= b THEN a ELSE b

Range(f) == {f[i] : i \in DOMAIN f}

SetMin(S) == CHOOSE x \in S : \A y \in S : x <= y

SetMax(S) == CHOOSE x \in S : \A y \in S : x >= y

Max(a, b) == IF a >= b THEN a ELSE b

IsEven(n) == n % 2 = 0

HalfOf(n) == n \div 2

LimitSeq == <<"x_min", "x_max", "y_min", "y_max">>

LimitAttrs == {"x_min", "x_max", "y_min", "y_max"}

ZoomAttrs == {"zoom_radius", "zoom_center_x", "zoom_center_y"}

CallbackAttrs == LimitAttrs \cup ZoomAttrs

PrivateAttrs == {"_during_zoom_sync", "_viewer", "_frozen_state"}

IsPrivate(k) == k \in PrivateAttrs

-----------------------------------------------------------------------------
(* State of one FreezableBqplotImageViewerState *)

VARIABLES x_min, x_max, y_min, y_max,
          zoom_radius, zoom_center_x, zoom_center_y,
          _during_zoom_sync, _viewer, _frozen_state, linked_by_wcs,
          last, nops,
          profile, profile_last

vars == <<x_min, x_max, y_min, y_max, zoom_radius, zoom_center_x, zoom_center_y,
          _during_zoom_sync, _viewer, _frozen_state, linked_by_wcs, last, nops,
          profile, profile_last>>

Snapshot(m) == [x_min |-> m.x_min, x_max |-> m.x_max,
                y_min |-> m.y_min, y_max |-> m.y_max,
                zoom_radius |-> m.zoom_radius,
                zoom_center_x |-> m.zoom_center_x,
                zoom_center_y |-> m.zoom_center_y,
                _during_zoom_sync |-> m._during_zoom_sync]

\* A log entry: what happened (a notification, a handler invocation and its
\* outcome, an assignment), for which attribute, and the state at that point.
LoggedVal(m, ev, k, v) ==
    [m EXCEPT !.log = Append(@, [ev |-> ev, attr |-> k, val |-> v, seen |-> Snapshot(m)])]

Logged(m, ev, k) == LoggedVal(m, ev, k, 0)

Inexact(m) == [m EXCEPT !.ok = FALSE]

-----------------------------------------------------------------------------
(* Coordinate transform of the reference image (external collaborator).    *)
(* A linear WCS: world = WorldPerPixel * pixel.                            *)

WorldPerPixel == 2

PixelToWorld(p) == WorldPerPixel * p

WorldToPixelExact(w) == w % WorldPerPixel = 0

WorldToPixel(w) == w \div WorldPerPixel

-----------------------------------------------------------------------------
(* The interpreter state m of one external operation: the attributes, the  *)
(* notification bookkeeping of the callback properties (delay_count,       *)
(* old_values), the exception in flight (raised), the callback nesting     *)
(* depth, the behaviour chosen for the external aspect adjustment, and the *)
(* log of what observers were shown.                                       *)
(*                                                                         *)
(* A method body is the sequence of statements still to run; running a     *)
(* statement yields the new state and the statements of the code it calls  *)
(* (a callback, a nested method), which run before the rest.               *)

Ins(op, k, v) == [op |-> op, k |-> k, v |-> v]

Result(m, push) == [m |-> m, push |-> push]

\* echo.CallbackProperty.__set__, reached through super().__setattr__(k, v):
\* store the value, then notify the callbacks when the value changed and
\* notifications of k are not delayed.  Plain attributes are only stored.
PropertySet(m, k, v) ==
    Result([m EXCEPT ![k] = v],
           IF k \notin CallbackAttrs THEN <<>>
           ELSE IF m[k] = v \/ m.delay_count[k] > 0 THEN <<>>
           ELSE <<Ins("notify", k, 0)>>)

\* A __setattr__ that forgets the frozen set
SetattrIgnoringFrozen(m, k, v) == PropertySet(m, k, v)

\* FreezableState.__setattr__
Setattr(m, k, v) ==
    IF IsPrivate(k) \/ k \notin m._frozen_state
    THEN PropertySet(m, k, v)
    ELSE IF m[k] = None
         THEN PropertySet(m, k, v)
         ELSE Result(m, <<>>)

\* The callbacks registered in __init__: _set_zoom_radius_center on the zoom
\* attributes, _set_axes_lim on the four limits.
Callback(k) == IF k \in ZoomAttrs THEN "_set_zoom_radius_center" ELSE "_set_axes_lim"

\* CallbackProperty.notify: the callback runs synchronously; the interpreter
\* stack is finite (RecursionError).
Notify(m, k) ==
    IF m.depth >= MaxDepth
    THEN Result([m EXCEPT !.raised = "RecursionError"], <<>>)
    ELSE Result([Logged(m, "notify", k) EXCEPT !.depth = @ + 1],
                <<Ins("call", Callback(k), 0), Ins("return", "-", 0)>>)

\* delay_callback(self, 'x_min', 'x_max', 'y_min', 'y_max').__enter__
DelayEnter(m) ==
    [m EXCEPT !.old_values = [k \in DOMAIN @ |->
                                IF k \in LimitAttrs /\ m.delay_count[k] = 0
                                THEN m[k] ELSE @[k]],
              !.delay_count = [k \in DOMAIN @ |->
                                IF k \in LimitAttrs THEN @[k] + 1 ELSE @[k]]]

\* delay_callback(...).__exit__: runs on the normal and on the exceptional
\* exit; the properties whose outermost delay ends here and whose value
\* changed are notified, in order; then the exception propagates.
DelayExit(m) ==
    LET changed == SelectSeq(LimitSeq, LAMBDA k : /\ m.delay_count[k] = 1
                                                  /\ m.old_values[k] # m[k])
        notes == [i \in 1..Len(changed) |-> Ins("notify", changed[i], 0)]
    IN  Result([m EXCEPT !.delay_count = [k \in DOMAIN @ |->
                                            IF k \in LimitAttrs THEN @[k] - 1 ELSE @[k]],
                         !.raised = NoError],
               IF m.raised # NoError
               THEN notes \o <<Ins("reraise", m.raised, 0)>>
               ELSE notes)

\* during_zoom_sync(), before the yield
DuringZoomSyncEnter(m) == Setattr(m, "_during_zoom_sync", TRUE).m

\* A context manager without the except clause: an exception leaves the flag
DuringZoomSyncExitNoExcept(m) ==
    IF m.raised # NoError THEN m
    ELSE Setattr(m, "_during_zoom_sync", FALSE).m

\* during_zoom_sync(), after the yield: the except clause clears the flag
\* and re-raises, the normal exit clears the flag.
DuringZoomSyncExit(m) ==
    IF m.raised # NoError
    THEN [Setattr(m, "_during_zoom_sync", FALSE).m EXCEPT !.raised = m.raised]
    ELSE Setattr(m, "_during_zoom_sync", FALSE).m

AspectPad == Px(1)

\* _adjust_limits_aspect of the base class (external): it may leave the
\* limits alone, widen one axis about its midpoint inside a
\* delay_callback over the four limits, or raise.
AdjustLimitsAspect(m) ==
    LET m0 == Logged(m, "adjust", m.adjust)
        dx == IF m.x_min <= m.x_max THEN AspectPad ELSE -AspectPad
    IN  IF m.adjust = "raise"
        THEN Result([m0 EXCEPT !.raised = "AdjustError"], <<>>)
        ELSE IF None \in {m.x_min, m.x_max, m.y_min, m.y_max}
        THEN Result(m0, <<>>)
        ELSE IF m.adjust = "widen_x"
        THEN Result(m0, <<Ins("delay_enter", "-", 0),
                          Ins("assign", "x_min", m.x_min - dx),
                          Ins("assign", "x_max", m.x_max + dx),
                          Ins("delay_exit", "-", 0)>>)
        ELSE Result(m0, <<>>)

\* _set_zoom_radius_center, lines 149-161: centre and radius in pixels
ZoomCenterX(m) == IF m.linked_by_wcs THEN WorldToPixel(m.zoom_center_x)
                                     ELSE m.zoom_center_x

ZoomCenterY(m) == IF m.linked_by_wcs THEN WorldToPixel(m.zoom_center_y)
                                     ELSE m.zoom_center_y

\* The radius without abs()
ZoomRadiusSigned(m) ==
    IF m.linked_by_wcs
    THEN WorldToPixel(m.zoom_center_x + m.zoom_radius) - WorldToPixel(m.zoom_center_x)
    ELSE m.zoom_radius

ZoomRadius(m) ==
    IF m.linked_by_wcs
    THEN Abs(WorldToPixel(m.zoom_center_x + Abs(m.zoom_radius))
             - WorldToPixel(m.zoom_center_x))
    ELSE Abs(m.zoom_radius)

ZoomExact(m) ==
    m.linked_by_wcs => /\ WorldToPixelExact(m.zoom_center_x)
                       /\ WorldToPixelExact(m.zoom_center_y)
                       /\ WorldToPixelExact(m.zoom_center_x + Abs(m.zoom_radius))

\* _set_zoom_radius_center
SetZoomRadiusCenter(m) ==
    IF m._during_zoom_sync \/ m._viewer = NoViewer
    THEN Result(Logged(m, "zoom_guard", "-"), <<>>)
    ELSE LET center_x == ZoomCenterX(m)
             center_y == ZoomCenterY(m)
             radius == ZoomRadius(m)
             m0 == IF ZoomExact(m) THEN m ELSE Inexact(m)
         IN  Result(Logged(m0, "zoom_body", "-"),
                    <<Ins("enter_sync", "-", 0),
                      Ins("assign", "x_min", center_x - radius),
                      Ins("assign", "x_max", center_x + radius),
                      Ins("assign", "y_min", center_y - radius),
                      Ins("assign", "y_max", center_y + radius),
                      Ins("adjust", "-", 0),
                      Ins("exit_sync", "zoom_exit", 0)>>)

\* _set_axes_lim, lines 188-196: the limits in axes units
AxesLimits(m) ==
    IF m.linked_by_wcs
    THEN [x_min |-> PixelToWorld(m.x_min), x_max |-> PixelToWorld(m.x_max),
          y_min |-> PixelToWorld(m.y_min), y_max |-> PixelToWorld(m.y_max)]
    ELSE [x_min |-> m.x_min, x_max |-> m.x_max,
          y_min |-> m.y_min, y_max |-> m.y_max]

\* _set_axes_lim, lines 200-202: the zoom values written
\* Half the larger span
AxesZoomRadiusOfLargerSpan(l) == Abs(HalfOf(Max(l.x_max - l.x_min, l.y_max - l.y_min)))

AxesZoomRadius(l) == Abs(HalfOf(Min(l.x_max - l.x_min, l.y_max - l.y_min)))

AxesZoomCenterX(l) == HalfOf(l.x_max + l.x_min)

AxesZoomCenterY(l) == HalfOf(l.y_max + l.y_min)

AxesExact(l) == /\ IsEven(Min(l.x_max - l.x_min, l.y_max - l.y_min))
                /\ IsEven(l.x_max + l.x_min)
                /\ IsEven(l.y_max + l.y_min)

\* _set_axes_lim without the _during_zoom_sync check
SetAxesLimUnguarded(m) ==
    IF m._viewer = NoViewer
    THEN Result(Logged(m, "axes_guard", "-"), <<>>)
    ELSE IF None \in {m.x_min, m.x_max, m.y_min, m.y_max}
    THEN Result(Logged(m, "axes_null", "-"), <<>>)
    ELSE LET l == AxesLimits(m)
             m0 == IF AxesExact(l) THEN m ELSE Inexact(m)
         IN  Result(Logged(m0, "axes_body", "-"),
                    <<Ins("enter_sync", "-", 0),
                      Ins("assign", "zoom_radius", AxesZoomRadius(l)),
                      Ins("assign", "zoom_center_x", AxesZoomCenterX(l)),
                      Ins("assign", "zoom_center_y", AxesZoomCenterY(l)),
                      Ins("exit_sync", "axes_exit", 0)>>)

\* _set_axes_lim
SetAxesLim(m) ==
    IF m._during_zoom_sync \/ m._viewer = NoViewer
    THEN Result(Logged(m, "axes_guard", "-"), <<>>)
    ELSE IF None \in {m.x_min, m.x_max, m.y_min, m.y_max}
    THEN Result(Logged(m, "axes_null", "-"), <<>>)
    ELSE LET l == AxesLimits(m)
             m0 == IF AxesExact(l) THEN m ELSE Inexact(m)
         IN  Result(Logged(m0, "axes_body", "-"),
                    <<Ins("enter_sync", "-", 0),
                      Ins("assign", "zoom_radius", AxesZoomRadius(l)),
                      Ins("assign", "zoom_center_x", AxesZoomCenterX(l)),
                      Ins("assign", "zoom_center_y", AxesZoomCenterY(l)),
                      Ins("exit_sync", "axes_exit", 0)>>)

\* One statement
Exec(m, ins) ==
    CASE ins.op \in {"assign", "external"} ->
              LET r == Setattr(m, ins.k, ins.v)
              IN  Result(LoggedVal(r.m, ins.op, ins.k, ins.v), r.push)
      [] ins.op = "notify"      -> Notify(m, ins.k)
      [] ins.op = "return"      -> Result([m EXCEPT !.depth = @ - 1], <<>>)
      [] ins.op = "call"        -> IF ins.k = "_set_axes_lim" THEN SetAxesLim(m)
                                   ELSE SetZoomRadiusCenter(m)
      [] ins.op = "adjust"      -> AdjustLimitsAspect(m)
      [] ins.op = "enter_sync"  -> Result(DuringZoomSyncEnter(m), <<>>)
      [] ins.op = "exit_sync"   -> Result(Logged(DuringZoomSyncExit(m), ins.k, "-"), <<>>)
      [] ins.op = "delay_enter" -> Result(DelayEnter(m), <<>>)
      [] ins.op = "delay_exit"  -> DelayExit(m)
      [] ins.op = "reraise"     -> Result([m EXCEPT !.raised =
                                             IF @ # NoError THEN @ ELSE ins.k], <<>>)

\* The statements that run while an exception propagates: the exits of the
\* context managers and the returns.
Cleanup == {"exit_sync", "delay_exit", "return", "reraise"}

RECURSIVE Run(_, _)
Run(m, stack) ==
    IF stack = <<>> THEN m
    ELSE IF m.raised # NoError /\ Head(stack).op \notin Cleanup
    THEN Run(m, Tail(stack))
    ELSE LET r == Exec(m, Head(stack))
         IN  Run(r.m, r.push \o Tail(stack))

-----------------------------------------------------------------------------
(* Full-extent limits.  A layer is [visible, ndim, nx, ny, coords, off_x,  *)
(* off_y, flip]: nx, ny are the sizes along its x and y pixel axes; when   *)
(* coords is TRUE its transform maps its pixel p to the reference pixel    *)
(* off + flip * p.  reference_data is [present, coords, nx, ny].           *)

PosInf == 8888

NaN == 7777

IsFinite(v) == v \notin {NegInf, PosInf, NaN}

RECURSIVE ResetLimitsWcs(_, _, _, _)
\* _get_reset_limits, lines 210-245: acc is <<x_min, x_max, y_min, y_max,
\* wcs_success>>
ResetLimitsWcs(layers, i, return_as_world, acc) ==
    IF i > Len(layers) THEN acc
    ELSE LET layer == layers[i]
             x_bl == Px(layer.off_x)
             y_bl == Px(layer.off_y)
             x_tr == Px(layer.off_x + layer.flip * (layer.nx - 1))
             y_tr == Px(layer.off_y + layer.flip * (layer.ny - 1))
             next == IF return_as_world
                     THEN <<Min(acc[1], PixelToWorld(x_bl)),
                            Max(acc[2], PixelToWorld(x_tr)),
                            Min(acc[3], PixelToWorld(y_bl)),
                            Max(acc[4], PixelToWorld(y_tr)), TRUE>>
                     ELSE <<Min(acc[1], Min(x_bl, x_tr) - HalfPixel),
                            Max(acc[2], Max(x_bl, x_tr) + HalfPixel),
                            Min(acc[3], Min(y_bl, y_tr) - HalfPixel),
                            Max(acc[4], Max(y_bl, y_tr) + HalfPixel), TRUE>>
         IN  IF ~layer.visible \/ ~layer.coords
             THEN ResetLimitsWcs(layers, i + 1, return_as_world, acc)
             ELSE ResetLimitsWcs(layers, i + 1, return_as_world, next)

RECURSIVE ResetLimitsPixelAllLayers(_, _, _)
\* The pixel fallback without the visibility test
ResetLimitsPixelAllLayers(layers, i, acc) ==
    IF i > Len(layers) THEN acc
    ELSE LET layer == layers[i]
         IN  IF layer.ndim = 1
             THEN ResetLimitsPixelAllLayers(layers, i + 1, acc)
             ELSE ResetLimitsPixelAllLayers(layers, i + 1,
                     <<acc[1], Max(acc[2], Px(layer.nx) - HalfPixel),
                       acc[3], Max(acc[4], Px(layer.ny) - HalfPixel)>>)

RECURSIVE ResetLimitsPixel(_, _, _)
\* _get_reset_limits, lines 248-258
ResetLimitsPixel(layers, i, acc) ==
    IF i > Len(layers) THEN acc
    ELSE LET layer == layers[i]
         IN  IF ~layer.visible \/ layer.ndim = 1
             THEN ResetLimitsPixel(layers, i + 1, acc)
             ELSE ResetLimitsPixel(layers, i + 1,
                     <<acc[1], Max(acc[2], Px(layer.nx) - HalfPixel),
                       acc[3], Max(acc[4], Px(layer.ny) - HalfPixel)>>)

\* _get_reset_limits
GetResetLimits(wcs, layers, reference_data, return_as_world) ==
    LET w == IF wcs /\ reference_data.coords
             THEN ResetLimitsWcs(layers, 1, return_as_world,
                                 <<PosInf, NegInf, PosInf, NegInf, FALSE>>)
             ELSE <<PosInf, NegInf, PosInf, NegInf, FALSE>>
    IN  IF w[5] THEN <<w[1], w[2], w[3], w[4]>>
        ELSE ResetLimitsPixel(layers, 1, <<-HalfPixel, NegInf, -HalfPixel, NegInf>>)

\* reset_limits of the base class (external): the extent of the reference
\* data, written inside a delay_callback over the four limits.
SuperResetLimits(m, reference_data) ==
    IF ~reference_data.present THEN m
    ELSE Run(m, <<Ins("delay_enter", "-", 0),
                  Ins("assign", "x_min", -HalfPixel),
                  Ins("assign", "x_max", Px(reference_data.nx) - HalfPixel),
                  Ins("assign", "y_min", -HalfPixel),
                  Ins("assign", "y_max", Px(reference_data.ny) - HalfPixel),
                  Ins("adjust", "-", 0),
                  Ins("delay_exit", "-", 0)>>)

\* reset_limits without the delay_callback
ResetLimitsCallNoDelay(m, layers, reference_data) ==
    IF m._viewer # NoViewer /\ m._viewer # "imviz"
    THEN SuperResetLimits(m, reference_data)
    ELSE IF ~reference_data.present THEN m
    ELSE LET lims == GetResetLimits(m.linked_by_wcs, layers, reference_data, FALSE)
         IN  IF \E i \in 1..4 : ~IsFinite(lims[i]) THEN m
             ELSE Run(m, <<Ins("assign", "x_min", lims[1]),
                           Ins("assign", "x_max", lims[2]),
                           Ins("assign", "y_min", lims[3]),
                           Ins("assign", "y_max", lims[4]),
                           Ins("adjust", "-", 0)>>)

\* reset_limits that keeps the finite bounds of a partly non-finite result
ResetLimitsCallKeepFinite(m, layers, reference_data) ==
    IF m._viewer # NoViewer /\ m._viewer # "imviz"
    THEN SuperResetLimits(m, reference_data)
    ELSE IF ~reference_data.present THEN m
    ELSE LET lims == GetResetLimits(m.linked_by_wcs, layers, reference_data, FALSE)
             keep(i) == IF IsFinite(lims[i]) THEN lims[i] ELSE m[LimitSeq[i]]
         IN  Run(m, <<Ins("delay_enter", "-", 0),
                      Ins("assign", "x_min", keep(1)),
                      Ins("assign", "x_max", keep(2)),
                      Ins("assign", "y_min", keep(3)),
                      Ins("assign", "y_max", keep(4)),
                      Ins("adjust", "-", 0),
                      Ins("delay_exit", "-", 0)>>)

\* reset_limits
ResetLimitsCall(m, layers, reference_data) ==
    IF m._viewer # NoViewer /\ m._viewer # "imviz"
    THEN SuperResetLimits(m, reference_data)
    ELSE IF ~reference_data.present THEN m
    ELSE LET lims == GetResetLimits(m.linked_by_wcs, layers, reference_data, FALSE)
         IN  IF \E i \in 1..4 : ~IsFinite(lims[i]) THEN m
             ELSE Run(m, <<Ins("delay_enter", "-", 0),
                           Ins("assign", "x_min", lims[1]),
                           Ins("assign", "x_max", lims[2]),
                           Ins("assign", "y_min", lims[3]),
                           Ins("assign", "y_max", lims[4]),
                           Ins("adjust", "-", 0),
                           Ins("delay_exit", "-", 0)>>)

\* state.k = v from outside the class: the same assignment path
WriteCall(m, k, v) == Run(m, <<Ins("external", k, v)>>)

\* _set_viewer that also pushes the zoom into the limits
SetViewerCallPushZoom(m, viewer) ==
    Run(Setattr(m, "_viewer", viewer).m, <<Ins("call", "_set_zoom_radius_center", 0),
                                           Ins("call", "_set_axes_lim", 0)>>)

\* _set_viewer
SetViewerCall(m, viewer) ==
    Run(Setattr(m, "_viewer", viewer).m, <<Ins("call", "_set_axes_lim", 0)>>)

\* _set_axes_aspect_ratio: the base class stores the ratio and adjusts the
\* limits; then the zoom is derived again.
SetAxesAspectRatioCall(m) ==
    Run(m, <<Ins("adjust", "-", 0), Ins("call", "_set_axes_lim", 0)>>)

-----------------------------------------------------------------------------
(* FreezableProfileViewerState.  The object is the record profile: the     *)
(* four limits, the frozen set, whether reference_data and x_att_pixel are *)
(* set, and the layers.  A layer is [visible, kind, x, psc]: kind says     *)
(* whether reading layer.profile raises, gives None or gives (x, y); x is  *)
(* the x sequence; psc is meta['_pixel_scale_factor'] or None.  Only the   *)
(* values are modelled, not the notifications to the viewer's observers.   *)

ProfileLayer(visible, kind, x, psc) ==
    [visible |-> visible, kind |-> kind, x |-> x, psc |-> psc]

ProfileConstructed ==
    [x_min |-> None, x_max |-> None, y_min |-> None, y_max |-> None,
     _frozen_state |-> {}, reference_data |-> FALSE, x_att_pixel |-> FALSE,
     layers |-> <<>>, delay_count |-> [k \in CallbackAttrs |-> 0]]

\* History of the profile viewer: the last operation, its arguments, the
\* object before it, the error it raised and the scale factor it used.
ProfileIdle ==
    [op |-> "init", old_unit |-> "-", new_unit |-> "-", pre |-> ProfileConstructed,
     raised |-> NoError, psc |-> None]

\* self.k = v
ProfileAssign(p, k, v) == Setattr(p, k, v).m

\* np.nanmin, np.nanmax
NanMin(x) ==
    LET S == {x[i] : i \in DOMAIN x} \ {NaN}
    IN  IF S = {} THEN NaN ELSE SetMin(S)

NanMax(x) ==
    LET S == {x[i] : i \in DOMAIN x} \ {NaN}
    IN  IF S = {} THEN NaN ELSE SetMax(S)

\* Python's min(a, b) and max(a, b) with b possibly nan: every comparison
\* with nan is false, so a is kept
PyMin(a, b) == IF b # NaN /\ b < a THEN b ELSE a

PyMax(a, b) == IF b # NaN /\ b > a THEN b ELSE a

RECURSIVE ProfileBoundsStopAtFailure(_, _, _)
\* The loop ended by the first layer whose profile raises
ProfileBoundsStopAtFailure(layers, i, acc) ==
    IF i > Len(layers) THEN acc
    ELSE LET layer == layers[i]
         IN  IF layer.kind = "raises" THEN acc
             ELSE IF layer.kind = "none" THEN ProfileBoundsStopAtFailure(layers, i + 1, acc)
             ELSE IF Len(layer.x) > 0
             THEN ProfileBoundsStopAtFailure(layers, i + 1,
                                <<PyMin(acc[1], NanMin(layer.x)),
                                  PyMax(acc[2], NanMax(layer.x))>>)
             ELSE ProfileBoundsStopAtFailure(layers, i + 1, acc)

RECURSIVE ProfileBounds(_, _, _)
\* _reset_x_limits, lines 40-51: acc is <<x_min, x_max>>
ProfileBounds(layers, i, acc) ==
    IF i > Len(layers) THEN acc
    ELSE LET layer == layers[i]
         IN  IF layer.kind = "raises" THEN ProfileBounds(layers, i + 1, acc)
             ELSE IF layer.kind = "none" THEN ProfileBounds(layers, i + 1, acc)
             ELSE IF Len(layer.x) > 0
             THEN ProfileBounds(layers, i + 1,
                                <<PyMin(acc[1], NanMin(layer.x)),
                                  PyMax(acc[2], NanMax(layer.x))>>)
             ELSE ProfileBounds(layers, i + 1, acc)

\* _reset_x_limits
ResetXLimitsCall(p) ==
    IF ~p.reference_data \/ ~p.x_att_pixel THEN p
    ELSE LET b == ProfileBounds(p.layers, 1, <<PosInf, NegInf>>)
         IN  IF ~IsFinite(b[1]) \/ ~IsFinite(b[2]) THEN p
             ELSE ProfileAssign(ProfileAssign(p, "x_min", b[1]), "x_max", b[2])

\* A unit argument that is None
NoUnit == "None"

\* spectral_axis_conversion (external collaborator) between a wavelength
\* unit and a frequency unit: frequency = SpeedOfLight / wavelength
SpeedOfLight == 12

SpectralAxisExact(v, old_unit, new_unit) ==
    old_unit = new_unit \/ (v > 0 /\ SpeedOfLight % v = 0)

SpectralAxisConversion(v, old_unit, new_unit) ==
    IF old_unit = new_unit \/ v <= 0 THEN v ELSE SpeedOfLight \div v

\* _convert_units_x_limits with the unit test before the limit test
ConvertUnitsXLimitsCallUnitsFirst(p, old_unit, new_unit) ==
    IF old_unit = NoUnit \/ new_unit = NoUnit THEN ResetXLimitsCall(p)
    ELSE IF p.x_min = None \/ p.x_max = None THEN p
    ELSE LET x_lims_new == <<SpectralAxisConversion(p.x_min, old_unit, new_unit),
                             SpectralAxisConversion(p.x_max, old_unit, new_unit)>>
         IN  ProfileAssign(ProfileAssign(p, "x_min", NanMin(x_lims_new)),
                           "x_max", NanMax(x_lims_new))

\* _convert_units_x_limits that assigns the converted pair in its order
ConvertUnitsXLimitsCallUnordered(p, old_unit, new_unit) ==
    IF p.x_min = None \/ p.x_max = None THEN p
    ELSE IF old_unit = NoUnit \/ new_unit = NoUnit THEN ResetXLimitsCall(p)
    ELSE LET x_lims_new == <<SpectralAxisConversion(p.x_min, old_unit, new_unit),
                             SpectralAxisConversion(p.x_max, old_unit, new_unit)>>
         IN  ProfileAssign(ProfileAssign(p, "x_min", x_lims_new[1]),
                           "x_max", x_lims_new[2])

\* _convert_units_x_limits
ConvertUnitsXLimitsCall(p, old_unit, new_unit) ==
    IF p.x_min = None \/ p.x_max = None THEN p
    ELSE IF old_unit = NoUnit \/ new_unit = NoUnit THEN ResetXLimitsCall(p)
    ELSE LET x_lims_new == <<SpectralAxisConversion(p.x_min, old_unit, new_unit),
                             SpectralAxisConversion(p.x_max, old_unit, new_unit)>>
         IN  ProfileAssign(ProfileAssign(p, "x_min", NanMin(x_lims_new)),
                           "x_max", NanMax(x_lims_new))

ConvertUnitsXExact(p, old_unit, new_unit) ==
    \/ p.x_min = None \/ p.x_max = None
    \/ old_unit = NoUnit \/ new_unit = NoUnit
    \/ /\ SpectralAxisExact(p.x_min, old_unit, new_unit)
       /\ SpectralAxisExact(p.x_max, old_unit, new_unit)

\* _reset_y_limits of the base class (external): the y extent of the
\* profiles, here a fixed range, when reference data is set
YExtent == <<0, 10>>

ResetYLimitsCall(p) ==
    IF ~p.reference_data THEN p
    ELSE ProfileAssign(ProfileAssign(p, "y_min", YExtent[1]), "y_max", YExtent[2])

RECURSIVE FirstScaleFactor(_, _)
\* _convert_units_y_limits, lines 94-105: the factor of the first layer
\* whose meta holds a true value under '_pixel_scale_factor', or None
FirstScaleFactor(layers, i) ==
    IF i > Len(layers) THEN None
    ELSE IF layers[i].psc # None /\ layers[i].psc # 0 THEN layers[i].psc
    ELSE FirstScaleFactor(layers, i + 1)

\* flux_conversion_general (external collaborator) over "Jy", "dJy" and the
\* surface brightness "Jy/sr"; flux = surface brightness * scale factor, so
\* a conversion from or to "Jy/sr" needs the factor in the equivalencies.
DeciPerJy == 10

FluxNeedsFactor(old_unit, new_unit) == (old_unit = "Jy/sr") # (new_unit = "Jy/sr")

FluxPerDeci(unit, psc) ==
    IF unit = "dJy" THEN 1
    ELSE IF unit = "Jy" THEN DeciPerJy
    ELSE IF psc = None THEN DeciPerJy ELSE DeciPerJy * psc

FluxExact(y, old_unit, new_unit, psc) ==
    (y * FluxPerDeci(old_unit, psc)) % FluxPerDeci(new_unit, psc) = 0

FluxConversion(y, old_unit, new_unit, psc) ==
    (y * FluxPerDeci(old_unit, psc)) \div FluxPerDeci(new_unit, psc)

ProfileResult(p, raised, psc) == [p |-> p, raised |-> raised, psc |-> psc, ok |-> TRUE]

\* _convert_units_y_limits
ConvertUnitsYLimitsCall(p, old_unit, new_unit) ==
    IF old_unit = new_unit THEN ProfileResult(p, NoError, None)
    ELSE IF old_unit = NoUnit \/ new_unit = NoUnit
    THEN ProfileResult(ResetYLimitsCall(p), NoError, None)
    ELSE IF None \in {p.x_min, p.x_max, p.y_min, p.y_max}
    THEN ProfileResult(p, "TypeError", None)
    ELSE LET psc == FirstScaleFactor(p.layers, 1)
             y_corners_new == <<FluxConversion(p.y_min, old_unit, new_unit, psc),
                                FluxConversion(p.y_max, old_unit, new_unit, psc),
                                FluxConversion(p.y_min, old_unit, new_unit, psc),
                                FluxConversion(p.y_max, old_unit, new_unit, psc)>>
         IN  IF FluxNeedsFactor(old_unit, new_unit) /\ psc = None
             THEN ProfileResult(p, "UnitConversionError", psc)
             ELSE [ProfileResult(
                      ProfileAssign(ProfileAssign(p, "y_min", NanMin(y_corners_new)),
                                    "y_max", NanMax(y_corners_new)),
                      NoError, psc)
                   EXCEPT !.ok = /\ FluxExact(p.y_min, old_unit, new_unit, psc)
                                 /\ FluxExact(p.y_max, old_unit, new_unit, psc)]

-----------------------------------------------------------------------------
(* Inputs of the external operations *)

LimitInputs == {None, Px(0), Px(4)}

RadiusInputs == {Px(2), Px(-2)}

CenterInputs == {Px(5)}

Inputs(k) == IF k \in LimitAttrs THEN LimitInputs
             ELSE IF k = "zoom_radius" THEN RadiusInputs
             ELSE CenterInputs

AdjustBehaviours == {"none", "widen_x", "raise"}

AppConfigs == {"imviz", "cubeviz"}

FrozenChoices == {{}, {"x_min", "zoom_radius"}, {"y_max", "_during_zoom_sync"}}

Layer(visible, ndim, nx, ny, coords, off_x, flip) ==
    [visible |-> visible, ndim |-> ndim, nx |-> nx, ny |-> ny,
     coords |-> coords, off_x |-> off_x, off_y |-> 0, flip |-> flip]

LayerChoices ==
    { <<>>,
      << Layer(TRUE, 2, 4, 2, FALSE, 0, 1), Layer(TRUE, 2, 2, 3, FALSE, 0, 1) >>,
      << Layer(FALSE, 2, 8, 8, FALSE, 0, 1), Layer(TRUE, 1, 9, 1, FALSE, 0, 1) >>,
      << Layer(FALSE, 2, 8, 8, TRUE, 0, 1), Layer(TRUE, 1, 9, 1, FALSE, 0, 1),
         Layer(TRUE, 2, 3, 3, TRUE, 1, 1) >> }

NoReference == [present |-> FALSE, coords |-> FALSE, nx |-> 0, ny |-> 0]

ReferenceChoices == {NoReference,
                     [present |-> TRUE, coords |-> TRUE, nx |-> 4, ny |-> 2],
                     [present |-> TRUE, coords |-> FALSE, nx |-> 4, ny |-> 2]}

\* Limits written before a viewer is attached
InitLimits == { <<None, None, None, None>>,
                <<Px(0), Px(10), Px(0), Px(4)>>,
                <<Px(4), Px(0), Px(4), Px(0)>> }

-----------------------------------------------------------------------------
(* The state machine *)

Machine(adj) ==
    [x_min |-> x_min, x_max |-> x_max, y_min |-> y_min, y_max |-> y_max,
     zoom_radius |-> zoom_radius, zoom_center_x |-> zoom_center_x,
     zoom_center_y |-> zoom_center_y,
     _during_zoom_sync |-> _during_zoom_sync, _viewer |-> _viewer,
     _frozen_state |-> _frozen_state, linked_by_wcs |-> linked_by_wcs,
     delay_count |-> [k \in CallbackAttrs |-> 0],
     old_values |-> [k \in CallbackAttrs |-> None],
     log |-> <<>>, raised |-> NoError, depth |-> 0, adjust |-> adj, ok |-> TRUE]

InRange(m) == \A k \in CallbackAttrs : m[k] = None \/ m[k] \in -MaxCoord..MaxCoord

Has(log, ev) == \E i \in 1..Len(log) : log[i].ev = ev

Count(log, ev) == Cardinality({i \in 1..Len(log) : log[i].ev = ev})

\* What the operation was and what it did
Record(op, k, v, m, layers, reference_data) ==
    [op |-> op, attr |-> k, val |-> v,
     adjust |-> IF Has(m.log, "adjust") THEN m.adjust ELSE "unused",
     layers |-> layers, reference_data |-> reference_data,
     pre |-> Snapshot(Machine("none")), log |-> m.log, raised |-> m.raised,
     after_error |-> (last.raised # NoError /\ Has(last.log, "zoom_body")),
     writes_only |-> (last.writes_only /\ op \in {"write", "set_viewer"})]

Commit(m, rec) ==
    /\ m.ok /\ InRange(m)
    /\ m.adjust = "none" \/ Has(m.log, "adjust")
    /\ x_min' = m.x_min /\ x_max' = m.x_max
    /\ y_min' = m.y_min /\ y_max' = m.y_max
    /\ zoom_radius' = m.zoom_radius
    /\ zoom_center_x' = m.zoom_center_x
    /\ zoom_center_y' = m.zoom_center_y
    /\ _during_zoom_sync' = m._during_zoom_sync
    /\ _viewer' = m._viewer
    /\ _frozen_state' = m._frozen_state
    /\ linked_by_wcs' = m.linked_by_wcs
    /\ last' = rec
    /\ nops' = nops + 1
    /\ UNCHANGED <<profile, profile_last>>

\* __init__ and the class attributes: the zoom defaults, no viewer, nothing
\* frozen, not linked; the limits are those given before a viewer exists.
Constructed(l) ==
    [x_min |-> l[1], x_max |-> l[2], y_min |-> l[3], y_max |-> l[4],
     zoom_radius |-> Px(1), zoom_center_x |-> Px(0), zoom_center_y |-> Px(0),
     _during_zoom_sync |-> FALSE, _viewer |-> NoViewer,
     _frozen_state |-> {}, linked_by_wcs |-> FALSE,
     delay_count |-> [k \in CallbackAttrs |-> 0],
     old_values |-> [k \in CallbackAttrs |-> None],
     log |-> <<>>, raised |-> NoError, depth |-> 0, adjust |-> "none", ok |-> TRUE]

\* The state after construction, or after construction and the viewer's
\* _set_viewer call.
Init ==
    \E l \in InitLimits : \E viewer \in {NoViewer, "imviz"} :
        LET m == IF viewer = NoViewer THEN Constructed(l)
                 ELSE SetViewerCall(Constructed(l), viewer)
        IN  /\ x_min = m.x_min /\ x_max = m.x_max
            /\ y_min = m.y_min /\ y_max = m.y_max
            /\ zoom_radius = m.zoom_radius
            /\ zoom_center_x = m.zoom_center_x
            /\ zoom_center_y = m.zoom_center_y
            /\ _during_zoom_sync = m._during_zoom_sync
            /\ _viewer = m._viewer
            /\ _frozen_state = m._frozen_state
            /\ linked_by_wcs = m.linked_by_wcs
            /\ nops = 0
            /\ last = [op |-> "init", attr |-> "-", val |-> None,
                       adjust |-> "unused", layers |-> <<>>,
                       reference_data |-> NoReference,
                       pre |-> Snapshot(Constructed(l)), log |-> m.log,
                       raised |-> NoError, after_error |-> FALSE,
                       writes_only |-> TRUE]
            /\ profile = ProfileConstructed
            /\ profile_last = ProfileIdle

\* state.k = v from outside the class
Write ==
    /\ nops < MaxOps
    /\ \E k \in CallbackAttrs : \E v \in Inputs(k) : \E adj \in AdjustBehaviours :
        LET m == WriteCall(Machine(adj), k, v)
        IN  Commit(m, Record("write", k, v, m, <<>>, NoReference))

\* state._frozen_state = [...]
SetFrozenState ==
    /\ nops < MaxOps
    /\ \E f \in FrozenChoices :
        LET m == Setattr(Machine("none"), "_frozen_state", f).m
        IN  /\ f # _frozen_state
            /\ Commit(m, Record("freeze", "_frozen_state", None, m, <<>>, NoReference))

\* state.linked_by_wcs = b
SetLinkedByWcs ==
    /\ nops < MaxOps
    /\ \E b \in BOOLEAN :
        LET m == Setattr(Machine("none"), "linked_by_wcs", b).m
        IN  /\ b # linked_by_wcs
            /\ Commit(m, Record("link", "linked_by_wcs", None, m, <<>>, NoReference))

SetViewer ==
    /\ nops < MaxOps
    /\ _viewer = NoViewer
    /\ \E viewer \in AppConfigs :
        LET m == SetViewerCall(Machine("none"), viewer)
        IN  Commit(m, Record("set_viewer", "_viewer", None, m, <<>>, NoReference))

SetAxesAspectRatio ==
    /\ nops < MaxOps
    /\ \E adj \in AdjustBehaviours :
        LET m == SetAxesAspectRatioCall(Machine(adj))
        IN  Commit(m, Record("set_axes_aspect_ratio", "-", None, m, <<>>, NoReference))

ResetLimits ==
    /\ nops < MaxOps
    /\ \E layers \in LayerChoices : \E ref \in ReferenceChoices :
       \E adj \in AdjustBehaviours :
        LET m == ResetLimitsCall(Machine(adj), layers, ref)
        IN  /\ ref.present \/ layers = <<>>
            /\ (ref.present /\ ~ref.coords) => \E i \in 1..Len(layers) : layers[i].coords
            /\ Commit(m, Record("reset_limits", "-", None, m, layers, ref))

Next == \/ Write
        \/ SetFrozenState
        \/ SetLinkedByWcs
        \/ SetViewer
        \/ SetAxesAspectRatio
        \/ ResetLimits

Spec == Init /\ [][Next]_vars

\* Inputs of the profile viewer
XLimitChoices == { <<None, None>>, <<None, 4>>, <<2, 4>>, <<6, 3>> }

YLimitChoices == { <<None, None>>, <<1, 2>>, <<6, -6>> }

ProfileFrozenChoices == { {}, {"x_min", "y_max"} }

\* <<old_unit, new_unit>>
SpectralUnitPairs == { <<NoUnit, "um">>, <<"um", NoUnit>>, <<"um", "Hz">>,
                       <<"Hz", "um">>, <<"um", "um">> }

FluxUnitPairs == { <<NoUnit, "Jy">>, <<"Jy", NoUnit>>, <<NoUnit, NoUnit>>, <<"Jy", "Jy">>,
                   <<"Jy", "Jy/sr">>, <<"Jy/sr", "Jy">>, <<"Jy", "dJy">> }

ProfileLayerChoices ==
    { <<>>,
      << ProfileLayer(TRUE, "raises", <<>>, None), ProfileLayer(TRUE, "xy", <<2, 4>>, None) >>,
      << ProfileLayer(FALSE, "xy", <<1, 12>>, 2), ProfileLayer(TRUE, "xy", <<3, 6>>, 3) >>,
      << ProfileLayer(TRUE, "none", <<>>, 0), ProfileLayer(TRUE, "xy", <<>>, None),
         ProfileLayer(TRUE, "xy", <<NaN, 4, 3>>, 3), ProfileLayer(TRUE, "xy", <<1, 2>>, 2) >>,
      << ProfileLayer(TRUE, "xy", <<NaN>>, None), ProfileLayer(TRUE, "raises", <<>>, None) >> }

ProfileInRange(p) ==
    \A k \in LimitAttrs : p[k] = None \/ p[k] \in -MaxCoord..MaxCoord

\* A profile viewer in use: data loaded, limits set or not
ProfileInit ==
    /\ \E xl \in XLimitChoices : \E yl \in YLimitChoices :
       \E f \in ProfileFrozenChoices : \E layers \in ProfileLayerChoices :
       \E configured \in {<<TRUE, TRUE>>, <<TRUE, FALSE>>, <<FALSE, TRUE>>} :
          profile = [ProfileConstructed EXCEPT
                        !.x_min = xl[1], !.x_max = xl[2],
                        !.y_min = yl[1], !.y_max = yl[2],
                        !._frozen_state = f, !.layers = layers,
                        !.reference_data = configured[1],
                        !.x_att_pixel = configured[2]]
    /\ profile_last = [ProfileIdle EXCEPT !.pre = profile]
    /\ x_min = None /\ x_max = None /\ y_min = None /\ y_max = None
    /\ zoom_radius = Px(1) /\ zoom_center_x = Px(0) /\ zoom_center_y = Px(0)
    /\ _during_zoom_sync = FALSE /\ _viewer = NoViewer
    /\ _frozen_state = {} /\ linked_by_wcs = FALSE
    /\ nops = 0
    /\ last = [op |-> "init", attr |-> "-", val |-> None,
               adjust |-> "unused", layers |-> <<>>,
               reference_data |-> NoReference,
               pre |-> Snapshot(Constructed(<<None, None, None, None>>)),
               log |-> <<>>, raised |-> NoError, after_error |-> FALSE,
               writes_only |-> TRUE]

ProfileCommit(r, op, old_unit, new_unit) ==
    /\ r.ok /\ ProfileInRange(r.p)
    /\ profile' = r.p
    /\ profile_last' = [op |-> op, old_unit |-> old_unit, new_unit |-> new_unit,
                        pre |-> profile, raised |-> r.raised, psc |-> r.psc]
    /\ nops' = nops + 1
    /\ UNCHANGED <<x_min, x_max, y_min, y_max, zoom_radius, zoom_center_x,
                   zoom_center_y, _during_zoom_sync, _viewer, _frozen_state,
                   linked_by_wcs, last>>

ResetXLimits ==
    /\ nops < MaxOps
    /\ ProfileCommit(ProfileResult(ResetXLimitsCall(profile), NoError, None),
                     "reset_x_limits", "-", "-")

ConvertUnitsXLimits ==
    /\ nops < MaxOps
    /\ \E units \in SpectralUnitPairs :
          /\ ConvertUnitsXExact(profile, units[1], units[2])
          /\ ProfileCommit(ProfileResult(ConvertUnitsXLimitsCall(profile, units[1], units[2]),
                                         NoError, None),
                           "convert_units_x_limits", units[1], units[2])

ConvertUnitsYLimits ==
    /\ nops < MaxOps
    /\ \E units \in FluxUnitPairs :
          ProfileCommit(ConvertUnitsYLimitsCall(profile, units[1], units[2]),
                        "convert_units_y_limits", units[1], units[2])

ProfileNext == \/ ResetXLimits
               \/ ConvertUnitsXLimits
               \/ ConvertUnitsYLimits

ProfileSpec == ProfileInit /\ [][ProfileNext]_vars

-----------------------------------------------------------------------------
(* Properties *)

Attr(k) == Machine("none")[k]

Now == Snapshot(Machine("none"))

Log == last.log

LimitsOf(snap) == <<snap.x_min, snap.x_max, snap.y_min, snap.y_max>>

ZoomOf(snap) == <<snap.zoom_radius, snap.zoom_center_x, snap.zoom_center_y>>

\* C1: an external assignment state.k = v to a frozen, non-private attribute
\* whose value is not None changes nothing, notifies nobody and raises
\* nothing; made while the value is None it takes effect (k becomes v).
C1_FrozenWriteSuppression ==
    (last.op = "write" /\ last.attr \in _frozen_state /\ ~IsPrivate(last.attr)) =>
        IF last.pre[last.attr] # None
        THEN /\ Log[1].seen = last.pre
             /\ Len(Log) = 1
             /\ Now = last.pre
             /\ last.raised = NoError
        ELSE /\ Log[1].seen[last.attr] = last.val
             /\ Attr(last.attr) = last.val

C1_Witness ==
    /\ last.op = "write"
    /\ last.attr \in _frozen_state
    /\ last.pre[last.attr] # None
    /\ last.val # last.pre[last.attr]
    /\ Attr(last.attr) = last.pre[last.attr]

\* C2 (as claimed): an assignment made by the state's own code (a handler
\* body, reset_limits) to a frozen attribute that already holds a value
\* still takes effect: right after self.k = v the attribute holds v.
C2_InternalWritesReachFrozenAttributes ==
    \A i \in 1..Len(Log) :
        (Log[i].ev = "assign" /\ Log[i].attr \in _frozen_state)
            => Log[i].seen[Log[i].attr] = Log[i].val

\* Log positions
At(ev) == {i \in 1..Len(Log) : Log[i].ev = ev}

\* The first entry ev after position i (0 when there is none)
Following(i, ev) ==
    LET js == {j \in (i + 1)..Len(Log) : Log[j].ev = ev}
    IN  IF js = {} THEN 0 ELSE SetMin(js)

\* The number of guarded bodies that are executing at entry i
OpenBodies(i) ==
    Cardinality({j \in 1..(i - 1) : Log[j].ev \in {"zoom_body", "axes_body"}})
    - Cardinality({j \in 1..(i - 1) : Log[j].ev \in {"zoom_exit", "axes_exit"}})

\* The external assignment changed the attribute, so its callbacks fired
Triggered ==
    /\ last.op = "write"
    /\ Log[1].seen[last.attr] # last.pre[last.attr]

\* C3: with a viewer attached, an external write that changes a zoom
\* attribute runs the body of set_zoom_radius_center exactly once; every
\* set_axes_lim invocation caused by the limit writes of that body returns at
\* its guard and writes no zoom field, the zoom handler is not invoked again
\* and the cascade ends without exhausting the stack.  No body ever runs
\* inside another, so the zoom writes of set_axes_lim never run the body of
\* set_zoom_radius_center either.
C3_ReentrancyGuard ==
    /\ (Triggered /\ last.attr \in ZoomAttrs /\ _viewer # NoViewer) =>
          /\ Count(Log, "zoom_body") = 1
          /\ Count(Log, "axes_body") = 0
          /\ Count(Log, "zoom_guard") = 0
          /\ \A i \in At("notify") :
                Log[i].attr \in LimitAttrs => Log[i + 1].ev = "axes_guard"
          /\ \A i \in At("assign") : Log[i].attr \in LimitAttrs
    /\ \A i \in At("zoom_body") \cup At("axes_body") : OpenBodies(i) = 0
    /\ \A i \in At("notify") :
          (OpenBodies(i) > 0 /\ Log[i].attr \in ZoomAttrs) => Log[i + 1].ev = "zoom_guard"
    /\ last.raised # "RecursionError"

C3_Witness ==
    /\ Triggered /\ last.attr \in ZoomAttrs /\ _viewer # NoViewer
    /\ last.adjust = "widen_x"
    /\ Count(Log, "zoom_body") = 1
    /\ Count(Log, "axes_guard") >= 4

\* C4: the sync flag is false whenever no guarded body is executing: in every
\* settled state, at every handler exit and at every notification made
\* outside a body.  When the aspect adjustment raises inside
\* set_zoom_radius_center the flag is false afterwards, the caller gets that
\* same error, and the next write of a limit or zoom attribute is
\* synchronised again.
C4_SyncGuardReleased ==
    /\ _during_zoom_sync = FALSE
    /\ \A i \in 1..Len(Log) :
          (OpenBodies(i) = 0 \/ Log[i].ev \in {"zoom_exit", "axes_exit"})
              => Log[i].seen._during_zoom_sync = FALSE
    /\ \A i \in At("zoom_body") : Following(i, "zoom_exit") # 0
    /\ \A i \in At("axes_body") : Following(i, "axes_exit") # 0
    /\ last.adjust = "raise" => last.raised = "AdjustError"
    /\ (last.after_error /\ Triggered /\ _viewer # NoViewer) =>
          /\ last.attr \in ZoomAttrs => Has(Log, "zoom_body")
          /\ (last.attr \in LimitAttrs /\ None \notin {x_min, x_max, y_min, y_max})
                => Has(Log, "axes_body")

C4_Witness ==
    /\ last.after_error /\ Triggered /\ _viewer # NoViewer
    /\ last.attr \in LimitAttrs
    /\ Has(Log, "axes_body")
    /\ ~_during_zoom_sync

\* C5: in reset_limits (own algorithm: no viewer or the imviz configuration)
\* every notification of a limit attribute, and so every run of
\* set_axes_lim, happens when all four limits already have their final
\* values, those left by the aspect adjustment included.
C5_ResetLimitsAtomic ==
    (last.op = "reset_limits" /\ _viewer \in {NoViewer, "imviz"}) =>
        \A i \in At("notify") \cup At("axes_body") \cup At("axes_guard") \cup At("axes_null") :
            LimitsOf(Log[i].seen) = LimitsOf(Now)

C5_Witness ==
    /\ last.op = "reset_limits" /\ _viewer = "imviz"
    /\ last.adjust = "widen_x"
    /\ Has(Log, "axes_body")
    /\ Cardinality({i \in At("notify") : Log[i].attr \in LimitAttrs}) >= 3
    /\ LimitsOf(Now) # LimitsOf(last.pre)

\* Some of the values of new are visible in seen and some of the values of
\* old that new replaces are still visible
Torn(old, new, seen) ==
    \E a, b \in DOMAIN new :
        /\ old[a] # new[a] /\ old[b] # new[b]
        /\ seen[a] = new[a] /\ seen[b] = old[b]

\* C6 (as claimed): while set_zoom_radius_center assigns the four limits, no
\* callback of a limit attribute is invoked with some limits new and others
\* still old.
C6_ZoomToLimitsAtomic ==
    \A b \in At("zoom_body") :
        LET a == Following(b, "adjust")
        IN  a # 0 =>
              \A i \in b..a :
                 (Log[i].ev = "notify" /\ Log[i].attr \in LimitAttrs)
                    => ~Torn(LimitsOf(Log[b].seen), LimitsOf(Log[a].seen),
                             LimitsOf(Log[i].seen))

\* C7 (as claimed): while set_axes_lim assigns zoom_radius, zoom_center_x and
\* zoom_center_y, no callback of a zoom attribute is invoked with some of
\* them new and others still old.
C7_LimitsToZoomAtomic ==
    \A b \in At("axes_body") :
        LET x == Following(b, "axes_exit")
        IN  x # 0 =>
              \A i \in b..x :
                 (Log[i].ev = "notify" /\ Log[i].attr \in ZoomAttrs)
                    => ~Torn(ZoomOf(Log[b].seen), ZoomOf(Log[x].seen),
                             ZoomOf(Log[i].seen))

\* C8: with a viewer attached, not linked by WCS, the guard idle and all
\* four limits set, set_axes_lim runs its body, leaves the limits as they
\* are and sets zoom_center_x = (x_min + x_max)/2, zoom_center_y =
\* (y_min + y_max)/2 and zoom_radius = |min(x_max - x_min, y_max - y_min)|/2
\* (no zoom attribute being frozen); it returns early only when the guard is
\* set, no viewer is attached or a limit is None.
C8_LimitsToZoom ==
    /\ \A b \in At("axes_body") :
          LET x == Following(b, "axes_exit")
              l == Log[b].seen
              z == Log[x].seen
          IN  (~linked_by_wcs /\ _frozen_state \cap ZoomAttrs = {}) =>
                /\ x # 0
                /\ LimitsOf(z) = LimitsOf(l)
                /\ 2 * z.zoom_center_x = l.x_min + l.x_max
                /\ 2 * z.zoom_center_y = l.y_min + l.y_max
                /\ 2 * z.zoom_radius = Abs(Min(l.x_max - l.x_min, l.y_max - l.y_min))
    /\ \A i \in At("axes_guard") :
          Log[i].seen._during_zoom_sync \/ _viewer = NoViewer
    /\ \A i \in At("axes_null") : None \in Range(LimitsOf(Log[i].seen))

C8_Witness ==
    /\ ~linked_by_wcs /\ _frozen_state = {} /\ _viewer # NoViewer
    /\ last.op = "set_viewer"
    /\ \E x \in At("axes_exit") :
          /\ LimitsOf(Log[x].seen) = <<Px(0), Px(10), Px(0), Px(4)>>
          /\ ZoomOf(Log[x].seen) = <<Px(2), Px(5), Px(2)>>

\* The two handlers run one after the other on the current state
AxesThenZoom ==
    Snapshot(Run(Machine("none"), <<Ins("call", "_set_axes_lim", 0),
                                    Ins("call", "_set_zoom_radius_center", 0)>>))

ZoomThenAxes ==
    Snapshot(Run(Machine("none"), <<Ins("call", "_set_zoom_radius_center", 0),
                                    Ins("call", "_set_axes_lim", 0)>>))

RoundTripState ==
    /\ _viewer # NoViewer /\ ~linked_by_wcs /\ _frozen_state = {}
    /\ None \notin {x_min, x_max, y_min, y_max}
    /\ AxesExact(Now)

\* The zoom square of the box: side 2 * radius about the midpoint
ZoomSquare(l) ==
    LET r == Abs(Min(l.x_max - l.x_min, l.y_max - l.y_min))
    IN  <<HalfOf(l.x_min + l.x_max - r), HalfOf(l.x_min + l.x_max + r),
          HalfOf(l.y_min + l.y_max - r), HalfOf(l.y_min + l.y_max + r)>>

\* set_zoom_radius_center writes centre -/+ |radius| to the limits
C9_ZoomToLimits ==
    \A b \in At("zoom_body") :
        LET a == Following(b, "adjust")
            z == Log[b].seen
        IN  (~linked_by_wcs /\ _frozen_state \cap LimitAttrs = {}) =>
              /\ a # 0
              /\ LimitsOf(Log[a].seen) =
                    <<z.zoom_center_x - Abs(z.zoom_radius),
                      z.zoom_center_x + Abs(z.zoom_radius),
                      z.zoom_center_y - Abs(z.zoom_radius),
                      z.zoom_center_y + Abs(z.zoom_radius)>>
              /\ last.adjust \in {"none", "unused"} => LimitsOf(Now) = LimitsOf(Log[a].seen)

\* C9 (as claimed): set_zoom_radius_center sets the limits to centre -/+
\* |radius|; limits -> set_axes_lim -> set_zoom_radius_center gives the zoom
\* square of the box, which is the original box exactly when the box is
\* square with positive spans; zoom -> set_zoom_radius_center ->
\* set_axes_lim gives the same centre and the radius |r|.
C9_RoundTripPositiveSpans ==
    /\ C9_ZoomToLimits
    /\ RoundTripState =>
          /\ LimitsOf(AxesThenZoom) = ZoomSquare(Now)
          /\ LimitsOf(AxesThenZoom) = LimitsOf(Now)
                <=> (x_max - x_min = y_max - y_min /\ x_max - x_min > 0)
    /\ (_viewer # NoViewer /\ ~linked_by_wcs /\ _frozen_state = {}) =>
          ZoomOf(ZoomThenAxes) = <<Abs(zoom_radius), zoom_center_x, zoom_center_y>>

\* C9 (amended): as C9, but the round trip returns the original limits
\* exactly when the box is square with non-negative spans: the box with
\* x_min = x_max and y_min = y_max is returned unchanged as well.
C9_RoundTrip ==
    /\ C9_ZoomToLimits
    /\ RoundTripState =>
          /\ LimitsOf(AxesThenZoom) = ZoomSquare(Now)
          /\ LimitsOf(AxesThenZoom) = LimitsOf(Now)
                <=> (x_max - x_min = y_max - y_min /\ x_max - x_min >= 0)
    /\ (_viewer # NoViewer /\ ~linked_by_wcs /\ _frozen_state = {}) =>
          ZoomOf(ZoomThenAxes) = <<Abs(zoom_radius), zoom_center_x, zoom_center_y>>

C9_Witness ==
    /\ RoundTripState
    /\ last.op = "write" /\ last.attr = "zoom_radius" /\ last.val = Px(-2)
    /\ Has(Log, "zoom_body")
    /\ LimitsOf(Now) = <<Px(-2), Px(2), Px(-2), Px(2)>>
    /\ LimitsOf(AxesThenZoom) = LimitsOf(Now)
    /\ ZoomOf(ZoomThenAxes) = <<Px(2), Px(0), Px(0)>>

\* C10 (as claimed): zoom_radius is never negative in a settled state.
C10_RadiusNonNegative == zoom_radius >= 0

\* reset_limits ran its own algorithm on reference data
OwnReset ==
    /\ last.op = "reset_limits"
    /\ _viewer \in {NoViewer, "imviz"}
    /\ last.reference_data.present

ComputedLimits == GetResetLimits(linked_by_wcs, last.layers, last.reference_data, FALSE)

\* C11: when reset_limits runs its own algorithm and one of the four computed
\* bounds is not finite, the four limits and the three zoom attributes keep
\* their values, nothing is assigned, nobody is notified and no error is
\* raised.
C11_ResetDiscardsNonFinite ==
    (OwnReset /\ \E i \in 1..4 : ComputedLimits[i] \in {NegInf, PosInf}) =>
        /\ Now = last.pre
        /\ Log = <<>>
        /\ last.raised = NoError

C11_Witness ==
    /\ OwnReset
    /\ last.layers # <<>>
    /\ ComputedLimits[1] = -HalfPixel
    /\ ComputedLimits[2] = NegInf
    /\ None \notin Range(LimitsOf(Now))
    /\ Now = last.pre

\* A settled state reached by external writes only, in which limits and zoom
\* are both defined in pixels
SettledByWrites ==
    /\ last.writes_only
    /\ _viewer # NoViewer /\ ~linked_by_wcs /\ _frozen_state = {}
    /\ None \notin Range(LimitsOf(Now))

\* C15 (as claimed): in every such state the zoom centre is the midpoint of
\* the limits and the zoom circle is inscribed in the limits box:
\* 2 * zoom_radius is at most each span, and equals one of them.
C15_ZoomInscribed ==
    SettledByWrites =>
        /\ 2 * zoom_center_x = x_min + x_max
        /\ 2 * zoom_center_y = y_min + y_max
        /\ 2 * zoom_radius <= Abs(x_max - x_min)
        /\ 2 * zoom_radius <= Abs(y_max - y_min)
        /\ \/ 2 * zoom_radius = Abs(x_max - x_min)
           \/ 2 * zoom_radius = Abs(y_max - y_min)

\* A limit in the units of the zoom attributes
AxesUnits(v) == IF linked_by_wcs THEN WorldPerPixel * v ELSE v

\* C16: before a viewer is attached a write to a limit changes no zoom
\* attribute, a write to a zoom attribute changes no limit, no handler body
\* runs and nothing is raised.  set_viewer runs set_axes_lim once and never
\* the body of set_zoom_radius_center: the limits stay as they are; with
\* four limits set the zoom is derived from them (no zoom attribute being
\* frozen), with a limit unset the zoom keeps its values.
C16_NoSyncBeforeViewer ==
    /\ (last.op = "write" /\ _viewer = NoViewer) =>
          /\ last.attr \in LimitAttrs => ZoomOf(Now) = ZoomOf(last.pre)
          /\ last.attr \in ZoomAttrs => LimitsOf(Now) = LimitsOf(last.pre)
          /\ \A i \in 1..Len(Log) :
                Log[i].ev \in {"external", "notify", "axes_guard", "zoom_guard"}
          /\ last.raised = NoError
    /\ last.op = "set_viewer" =>
          /\ Count(Log, "axes_body") + Count(Log, "axes_null") + Count(Log, "axes_guard") = 1
          /\ Count(Log, "zoom_body") = 0
          /\ LimitsOf(Now) = LimitsOf(last.pre)
          /\ last.raised = NoError
          /\ IF None \in Range(LimitsOf(Now))
             THEN ZoomOf(Now) = ZoomOf(last.pre)
             ELSE _frozen_state \cap ZoomAttrs = {} =>
                    /\ 2 * zoom_center_x = AxesUnits(x_min) + AxesUnits(x_max)
                    /\ 2 * zoom_center_y = AxesUnits(y_min) + AxesUnits(y_max)
                    /\ 2 * zoom_radius = Abs(Min(AxesUnits(x_max) - AxesUnits(x_min),
                                                 AxesUnits(y_max) - AxesUnits(y_min)))

C16_Witness ==
    /\ last.op = "set_viewer"
    /\ last.pre.zoom_radius = Px(-2)
    /\ LimitsOf(Now) = <<Px(0), Px(10), Px(0), Px(4)>>
    /\ ZoomOf(Now) = <<Px(2), Px(5), Px(2)>>

\* Layers that count in the pixel fallback
Eligible(layers) == {i \in 1..Len(layers) : layers[i].visible /\ layers[i].ndim > 1}

\* The WCS computation does not succeed
PixelFallback(layers, reference_data) ==
    \/ ~linked_by_wcs
    \/ ~reference_data.coords
    \/ \A i \in 1..Len(layers) : ~(layers[i].visible /\ layers[i].coords)

PixelExtent(layers) ==
    IF Eligible(layers) = {} THEN <<-HalfPixel, NegInf, -HalfPixel, NegInf>>
    ELSE <<-HalfPixel, SetMax({Px(layers[i].nx) : i \in Eligible(layers)}) - HalfPixel,
           -HalfPixel, SetMax({Px(layers[i].ny) : i \in Eligible(layers)}) - HalfPixel>>

\* C17: when the WCS computation does not succeed, get_reset_limits returns
\* x_min = y_min = -0.5 and x_max, y_max = the largest size along the x and
\* the y pixel axis over the visible layers of more than one dimension,
\* minus 0.5, or -infinity when there is no such layer, whatever
\* return_as_world is; reset_limits assigns exactly these when finite.
C17_PixelFallback ==
    (OwnReset /\ PixelFallback(last.layers, last.reference_data)) =>
        /\ ComputedLimits = PixelExtent(last.layers)
        /\ GetResetLimits(linked_by_wcs, last.layers, last.reference_data, TRUE)
              = PixelExtent(last.layers)
        /\ (Eligible(last.layers) # {} /\ _frozen_state \cap LimitAttrs = {}) =>
              /\ Has(Log, "adjust")
              /\ LimitsOf(Log[Following(0, "adjust")].seen) = PixelExtent(last.layers)

C17_Witness ==
    /\ OwnReset
    /\ linked_by_wcs /\ ~last.reference_data.coords
    /\ Len(last.layers) = 3
    /\ Cardinality(Eligible(last.layers)) = 1
    /\ last.adjust = "none"
    /\ LimitsOf(Now) = <<-HalfPixel, Px(3) - HalfPixel, -HalfPixel, Px(3) - HalfPixel>>

\* convert_units_x_limits was called with a unit that is None
NullUnitConversion ==
    /\ profile_last.op = "convert_units_x_limits"
    /\ profile_last.old_unit = NoUnit \/ profile_last.new_unit = NoUnit

\* C12 (as claimed): from every state, x_min or x_max null included,
\* convert_units_x_limits with old_unit or new_unit None leaves the state as
\* reset_x_limits() from the same state would.
C12_FallbackInEveryState ==
    NullUnitConversion => profile = ResetXLimitsCall(profile_last.pre)

\* C12 (amended): from every state with x_min and x_max both non-null,
\* convert_units_x_limits with old_unit or new_unit None leaves the state as
\* reset_x_limits() from the same state would; with x_min or x_max null it
\* changes nothing.
C12_UnitFallback ==
    NullUnitConversion =>
        IF profile_last.pre.x_min = None \/ profile_last.pre.x_max = None
        THEN profile = profile_last.pre
        ELSE profile = ResetXLimitsCall(profile_last.pre)

C12_Witness ==
    /\ NullUnitConversion
    /\ profile_last.old_unit = NoUnit
    /\ <<profile_last.pre.x_min, profile_last.pre.x_max>> = <<6, 3>>
    /\ <<profile.x_min, profile.x_max>> = <<2, 4>>

\* The x-values, nan aside, of the layers whose profile is a non-empty (x, y)
ProfileXValues(layers) ==
    UNION { Range(layers[i].x) \ {NaN} :
            i \in {j \in 1..Len(layers) : layers[j].kind = "xy" /\ Len(layers[j].x) > 0} }

XLimitsWritable(p) ==
    \A k \in {"x_min", "x_max"} : k \notin p._frozen_state \/ p[k] = None

\* C13: reset_x_limits raises nothing; a layer whose profile raises, is None
\* or has an empty x is skipped, and x_min, x_max become the least and the
\* greatest x-value of the other layers (no x limit being frozen); when
\* those layers give no value, or reference_data or x_att_pixel is None, the
\* state stays as it is.
C13_LayerFailureTolerance ==
    profile_last.op = "reset_x_limits" =>
        LET pre == profile_last.pre
            xs == ProfileXValues(pre.layers)
        IN  /\ profile_last.raised = NoError
            /\ IF ~pre.reference_data \/ ~pre.x_att_pixel \/ xs = {}
               THEN profile = pre
               ELSE XLimitsWritable(pre) =>
                      profile = [pre EXCEPT !.x_min = SetMin(xs), !.x_max = SetMax(xs)]

C13_Witness ==
    /\ profile_last.op = "reset_x_limits"
    /\ Len(profile.layers) = 2
    /\ profile.layers[1].kind = "raises"
    /\ <<profile_last.pre.x_min, profile_last.pre.x_max>> = <<6, 3>>
    /\ <<profile.x_min, profile.x_max>> = <<2, 4>>

VisibleLayers(layers) == SelectSeq(layers, LAMBDA layer : layer.visible)

\* C14 (as claimed): the limits reset_x_limits computes are the least and
\* the greatest x-value over the visible layers only; a hidden layer with a
\* non-empty profile changes nothing in the result.
C14_VisibleLayersOnly ==
    (/\ profile_last.op = "reset_x_limits"
     /\ profile_last.pre.reference_data /\ profile_last.pre.x_att_pixel
     /\ XLimitsWritable(profile_last.pre)) =>
        LET pre == profile_last.pre
            xs == ProfileXValues(VisibleLayers(pre.layers))
        IN  IF xs = {} THEN profile = pre
            ELSE profile = [pre EXCEPT !.x_min = SetMin(xs), !.x_max = SetMax(xs)]

\* C18: convert_units_x_limits with both limits and both units non-null
\* sets x_min to the lesser and x_max to the greater of the two converted
\* values (no x limit being frozen), so x_min <= x_max afterwards; with
\* x_min or x_max null it changes nothing.
C18_ConvertedLimitsOrdered ==
    profile_last.op = "convert_units_x_limits" =>
        LET pre == profile_last.pre
            a == SpectralAxisConversion(pre.x_min, profile_last.old_unit, profile_last.new_unit)
            b == SpectralAxisConversion(pre.x_max, profile_last.old_unit, profile_last.new_unit)
        IN  IF pre.x_min = None \/ pre.x_max = None THEN profile = pre
            ELSE (/\ profile_last.old_unit # NoUnit /\ profile_last.new_unit # NoUnit
                  /\ XLimitsWritable(pre)) =>
                    /\ profile = [pre EXCEPT !.x_min = Min(a, b), !.x_max = Max(a, b)]
                    /\ profile.x_min <= profile.x_max

C18_Witness ==
    /\ profile_last.op = "convert_units_x_limits"
    /\ profile_last.old_unit = "um" /\ profile_last.new_unit = "Hz"
    /\ <<profile_last.pre.x_min, profile_last.pre.x_max>> = <<2, 4>>
    /\ <<profile.x_min, profile.x_max>> = <<3, 6>>

\* C19 (as claimed): convert_units_y_limits with two different non-null
\* units uses the scale factor of the first visible layer that has one, and
\* no factor when no visible layer has one; with equal units it changes
\* nothing, and with exactly one unit None it does what reset_y_limits does.
C19_FirstVisibleScaleFactor ==
    profile_last.op = "convert_units_y_limits" =>
        LET pre == profile_last.pre
            old_unit == profile_last.old_unit
            new_unit == profile_last.new_unit
        IN  IF old_unit = new_unit THEN profile = pre
            ELSE IF old_unit = NoUnit \/ new_unit = NoUnit
            THEN profile = ResetYLimitsCall(pre)
            ELSE None \notin {pre.x_min, pre.x_max, pre.y_min, pre.y_max} =>
                    profile_last.psc = FirstScaleFactor(VisibleLayers(pre.layers), 1)

====
